---- MODULE Spec2Model ----
(***************************************************************************)
(* Model of scripts/export-pptx-slides.py (export_slides) and              *)
(* scripts/convert-pptx-to-pdf.py (convert_pptx_to_pdf): the orchestration *)
(* of a headless LibreOffice process, the bounded connection loop, the     *)
(* PDF export and the three-way rasterization chain.                       *)
(*                                                                         *)
(* A file "slide-<digits>.png" is represented by its digit string (a       *)
(* sequence of 0..9); the directory maps each such name to the page whose  *)
(* image it holds (0 for an image that predates every run).                *)
(***************************************************************************)
EXTENDS Integers, Sequences, FiniteSets, TLC

\* ---- bounds of the model ----
MaxPages == 10
MaxRuns == 2

\* ---- program constants ----
max_attempts == 10

VARIABLES
    pc,             \* control point of the current invocation
    script,         \* "export" (export_slides) or "convert" (convert_pptx_to_pdf)
    run,            \* number of invocations started so far
    exc,            \* exception raised in this invocation ("none" when there is none)
    result,         \* return value of the function: "none", "True", "False", "escaped"
    exit_code,      \* process exit code of the CLI (-1 while running)
    alive,          \* engine processes currently running (identified by launching run)
    lo_process,     \* process launched by this invocation (0: not launched)
    kill_steps,     \* pkill steps performed by this invocation
    term_calls,     \* lo_process.terminate() calls of this invocation
    kill_calls,     \* lo_process.kill() calls of this invocation
    stop_outcome,   \* how terminate()/wait(timeout=5) ended: "none", "exited",
                    \* "timeout", "term_raised"
    attempt,        \* handshake attempts performed by the connection loop
    refusals,       \* attempts of the loop that ended in NoConnectException
    sleeps,         \* time.sleep(1) backoffs taken by the loop
    context,        \* "None" or "ctx"
    doc,            \* source document handle: "none", "open", "closed"
    doc_closes,     \* doc.close(True) calls of this invocation
    pdf_doc,        \* re-imported PDF handle: "none", "open", "closed"
    pdf_doc_closes, \* pdf_doc.close(True) calls of this invocation
    num_pages,      \* page count of the input document
    images,         \* length of the list returned by convert_from_path
    dir,            \* slide-*.png files of the output directory: name -> page
    dir0,           \* names present when the invocation started
    temp_pdf,       \* temp_export.pdf exists
    out_pdf,        \* the output PDF of convert_pptx_to_pdf exists
    ran,            \* strategies that executed their conversion step
    probes,         \* availability probes made, as << strategy, available >>
    failed_in,      \* strategies in which a failure was raised while they ran
    written,        \* names of the images written by this invocation's strategies
    rendered,       \* pages emitted by the strategy that completed (-1: none)
    log,            \* one record per finished invocation
    input_found     \* os.path.exists(input_file) as seen by the CLI of this run

vars == << pc, script, run, exc, result, exit_code, alive, lo_process,
           kill_steps, term_calls, kill_calls, stop_outcome, attempt, refusals, sleeps, context, doc,
           doc_closes, pdf_doc, pdf_doc_closes, num_pages, images, dir, dir0,
           temp_pdf, out_pdf, ran, probes, failed_in, written, rendered, log,
           input_found >>

\* ---------------------------------------------------------------------
\* File names
\* ---------------------------------------------------------------------

RECURSIVE Digits(_)
\* str(n) for n >= 0, as used by f"slide-{i}.png"
Digits(n) == IF n < 10 THEN << n >> ELSE Append(Digits(n \div 10), n % 10)

RECURSIVE Pad(_, _)
\* zero-padded decimal of width w, as pdftoppm names its output
Pad(s, w) == IF Len(s) >= w THEN s ELSE Pad(<< 0 >> \o s, w)

RECURSIVE LexLess(_, _)
\* string order of "slide-" + a + ".png" against "slide-" + b + ".png":
\* the '.' that follows the digits sorts before every digit
LexLess(a, b) ==
    IF a = << >> THEN b # << >>
    ELSE IF b = << >> THEN FALSE
    ELSE IF Head(a) < Head(b) THEN TRUE
    ELSE IF Head(a) > Head(b) THEN FALSE
    ELSE LexLess(Tail(a), Tail(b))

RECURSIVE Sorted(_)
\* sorted(glob.glob('slide-*.png'))
Sorted(S) ==
    IF S = {} THEN << >>
    ELSE LET m == CHOOSE x \in S : \A y \in S \ {x} : LexLess(x, y)
         IN  << m >> \o Sorted(S \ {m})

\* the directory after writing the image of page p to file name
WriteFile(d, name, p) == [n \in (DOMAIN d) \cup {name} |-> IF n = name THEN p ELSE d[n]]

\* os.rename(old, new): new is replaced silently when it exists
Rename(d, old, new) ==
    [n \in ((DOMAIN d) \ {old}) \cup {new} |-> IF n = new THEN d[old] ELSE d[n]]

RECURSIVE WritePages(_, _, _)
\* pages 1..k written under the width-w names of pdftoppm
WritePages(d, k, w) ==
    IF k = 0 THEN d ELSE WriteFile(WritePages(d, k - 1, w), Pad(Digits(k), w), k)

RECURSIVE SavePagesFromZero(_, _)
\* variant: the files are numbered from the 0-based loop index
SavePagesFromZero(d, k) ==
    IF k = 0 THEN d ELSE WriteFile(SavePagesFromZero(d, k - 1), Digits(k - 1), k)

RECURSIVE SavePages(_, _)
\* pages 1..k saved as slide-<i+1>.png for i in 0..k-1
SavePages(d, k) ==
    IF k = 0 THEN d ELSE WriteFile(SavePages(d, k - 1), Digits(k), k)

RECURSIVE RenameLoop(_, _, _)
\* for i, old_path in enumerate(png_files, 1): rename unless already named so
RenameLoop(d, files, i) ==
    IF i > Len(files) THEN d
    ELSE IF files[i] = Digits(i) THEN RenameLoop(d, files, i + 1)
    ELSE RenameLoop(Rename(d, files[i], Digits(i)), files, i + 1)

\* slide-1.png .. slide-n.png
SlideNames(n) == { Digits(i) : i \in 1..n }

\* numbers of pages a rasterizer may emit for an n-page document
Counts(n) == { k \in {0, n - 1, n} : k >= 0 }

EmptyDir == [n \in {} |-> 0]

PreExisting == [n \in {Digits(1)} |-> 0]

\* ---------------------------------------------------------------------
\* State groups
\* ---------------------------------------------------------------------

procVars == << alive, lo_process, kill_steps, term_calls, kill_calls, stop_outcome >>
connVars == << attempt, refusals, sleeps, context >>
docVars == << doc, doc_closes, pdf_doc, pdf_doc_closes >>
fileVars == << dir, temp_pdf, out_pdf, written, rendered, ran, images >>
chainVars == << probes, failed_in >>
runVars == << script, run, num_pages, dir0, log, input_found >>
outVars == << result, exit_code >>

\* control points inside the try block of export_slides that wraps the PDF
\* export and the rasterization chain
InnerTry == { "store", "close_doc", "probe", "import_lib", "lib", "lib_save",
              "engine", "engine_pages", "engine_close", "tool", "rename", "rm_pdf" }

\* the handler that receives an exception raised at control point p
HandlerOf(p) ==
    IF script = "export" /\ p \in InnerTry THEN "inner_except" ELSE "outer_except"

\* ---------------------------------------------------------------------
\* Initial state
\* ---------------------------------------------------------------------

Init ==
    /\ pc = "idle"
    /\ script = "none"
    /\ run = 0
    /\ exc = "none"
    /\ result = "none"
    /\ exit_code = -1
    /\ alive = {}
    /\ lo_process = 0
    /\ kill_steps = 0
    /\ term_calls = 0
    /\ kill_calls = 0
    /\ stop_outcome = "none"
    /\ attempt = 0
    /\ refusals = 0
    /\ sleeps = 0
    /\ context = "None"
    /\ doc = "none"
    /\ doc_closes = 0
    /\ pdf_doc = "none"
    /\ pdf_doc_closes = 0
    /\ num_pages \in 1..MaxPages
    /\ images = 0
    /\ dir \in { EmptyDir, PreExisting }
    /\ dir0 = {}
    /\ temp_pdf = FALSE
    /\ out_pdf = FALSE
    /\ ran = {}
    /\ probes = {}
    /\ failed_in = {}
    /\ written = {}
    /\ rendered = -1
    /\ log = << >>
    /\ input_found = TRUE

\* ---------------------------------------------------------------------
\* CLI entry point
\* ---------------------------------------------------------------------

\* variant: the CLI calls the function without looking at the input path
EntryPointUnchecked(found) == "import_uno"

\* "if not os.path.exists(input_file): sys.exit(1)", else the call of the
\* conversion function: the control point that follows
EntryPoint(found) == IF found THEN "import_uno" ELSE "exited"

\* __main__: a missing input exits with 1 before the function is called;
\* otherwise the conversion function is entered with fresh locals
Main ==
    /\ pc \in { "idle", "exited" }
    /\ run < MaxRuns
    /\ run' = run + 1
    /\ \E s \in { "export", "convert" } : script' = s
    /\ exc' = "none"
    /\ result' = "none"
    /\ lo_process' = 0
    /\ kill_steps' = 0
    /\ term_calls' = 0
    /\ kill_calls' = 0
    /\ stop_outcome' = "none"
    /\ attempt' = 0
    /\ refusals' = 0
    /\ sleeps' = 0
    /\ context' = "None"
    /\ doc' = "none"
    /\ doc_closes' = 0
    /\ pdf_doc' = "none"
    /\ pdf_doc_closes' = 0
    /\ images' = 0
    /\ ran' = {}
    /\ probes' = {}
    /\ failed_in' = {}
    /\ written' = {}
    /\ rendered' = -1
    /\ dir0' = DOMAIN dir
    /\ \E input_exists \in BOOLEAN :
          /\ input_found' = input_exists
          /\ pc' = EntryPoint(input_exists)
          /\ exit_code' = IF EntryPoint(input_exists) = "exited" THEN 1 ELSE -1
    /\ UNCHANGED << alive, num_pages, dir, temp_pdf, out_pdf, log >>

\* import uno and the com.sun.star names
ImportUno ==
    /\ pc = "import_uno"
    /\ \E ok \in BOOLEAN :
          IF ok
          THEN /\ pc' = "kill"
               /\ exc' = exc
          ELSE /\ pc' = HandlerOf(pc)
               /\ exc' = "ImportError"
    /\ UNCHANGED << procVars, connVars, docVars, fileVars, chainVars, runVars, outVars >>

\* ---------------------------------------------------------------------
\* Process supervision
\* ---------------------------------------------------------------------

\* pkill -f 'libreoffice.*2002' with check=False, timeout=2, inside a bare
\* try/except: the matching processes die, or the step fails (timeout,
\* pkill missing, signal not delivered) and they survive
KillExisting ==
    /\ pc = "kill"
    /\ kill_steps' = kill_steps + 1
    /\ \E killed \in BOOLEAN : alive' = IF killed THEN {} ELSE alive
    /\ pc' = "launch"
    /\ UNCHANGED << exc, lo_process, term_calls, kill_calls, stop_outcome, connVars, docVars,
                    fileVars, chainVars, runVars, outVars >>

\* subprocess.Popen(['libreoffice', ...]) followed by the warm-up sleep
StartEngine ==
    /\ pc = "launch"
    /\ \E ok \in BOOLEAN :
          IF ok
          THEN /\ lo_process' = run
               /\ alive' = alive \cup { run }
               /\ pc' = "connect"
               /\ exc' = exc
          ELSE /\ pc' = HandlerOf(pc)
               /\ exc' = "FileNotFoundError"
               /\ UNCHANGED << lo_process, alive >>
    /\ UNCHANGED << kill_steps, term_calls, kill_calls, stop_outcome, connVars, docVars,
                    fileVars, chainVars, runVars, outVars >>

\* variant: the kill is issued whatever the graceful part did
NeedsKillAlways(outcome) == TRUE

\* the bare "except:" around terminate() and wait(timeout=5): the kill is
\* issued when one of the two raised
NeedsKill(outcome) == outcome # "exited"

\* lo_process.terminate(); lo_process.wait(timeout=5); except: lo_process.kill()
\* The process exits within the wait, the wait times out, or terminate()
\* raises; the kill, when issued, ends the process or raises itself
StopEngine ==
    /\ pc = "shutdown"
    /\ term_calls' = term_calls + 1
    /\ \E outcome \in { "exited", "timeout", "term_raised" }, kill_ok \in BOOLEAN :
          /\ stop_outcome' = outcome
          /\ IF NeedsKill(outcome)
             THEN /\ kill_calls' = kill_calls + 1
                  /\ IF kill_ok
                     THEN /\ alive' = alive \ { lo_process }
                          /\ pc' = "verify"
                          /\ exc' = exc
                     ELSE /\ alive' = IF outcome = "exited"
                                      THEN alive \ { lo_process } ELSE alive
                          /\ pc' = HandlerOf(pc)
                          /\ exc' = "Exception"
             ELSE /\ kill_ok
                  /\ kill_calls' = kill_calls
                  /\ alive' = alive \ { lo_process }
                  /\ pc' = "verify"
                  /\ exc' = exc
    /\ UNCHANGED << lo_process, kill_steps, connVars, docVars, fileVars, chainVars,
                    runVars, outVars >>

\* ---------------------------------------------------------------------
\* Connection loop
\* ---------------------------------------------------------------------

\* variant: the loop gives up one attempt early
LastAttemptEarly(a) == ~(a < max_attempts - 2)

\* "if attempt < max_attempts - 1: sleep(1) else: raise", for the 0-based
\* index a of the attempt that was refused
LastAttempt(a) == ~(a < max_attempts - 1)

\* variant: every failure of resolve is retried
RetriedAny(r) == r \in { "refused", "error" }

\* "except NoConnectException": the outcomes of resolve the loop retries
Retried(r) == r = "refused"

\* variant: the loop ends without raising when the last attempt is refused
AfterLastRefusalFallThrough == "desktop"

\* "raise Exception(...)" in the handler of the last refused attempt: the
\* control point that follows
AfterLastRefusal == "outer_except"

\* one iteration of "for attempt in range(max_attempts)": resolver.resolve
\* is accepted, refused (NoConnectException) or fails otherwise
Resolve ==
    /\ pc = "connect"
    /\ attempt < max_attempts
    /\ attempt' = attempt + 1
    /\ \E r \in { "accepted", "refused", "error" } :
          CASE r = "accepted" ->
                 /\ context' = "ctx"
                 /\ UNCHANGED << refusals, sleeps >>
                 /\ pc' = "desktop"
                 /\ exc' = exc
            [] r # "accepted" /\ Retried(r) ->
                 /\ context' = context
                 /\ refusals' = IF r = "refused" THEN refusals + 1 ELSE refusals
                 /\ IF ~LastAttempt(attempt)
                    THEN /\ sleeps' = sleeps + 1
                         /\ pc' = "connect"
                         /\ exc' = exc
                    ELSE /\ sleeps' = sleeps
                         /\ pc' = AfterLastRefusal
                         /\ exc' = IF AfterLastRefusal = "outer_except"
                                   THEN "Exception" ELSE exc
            [] r # "accepted" /\ ~Retried(r) ->
                 /\ context' = context
                 /\ UNCHANGED << refusals, sleeps >>
                 /\ pc' = HandlerOf(pc)
                 /\ exc' = "Exception"
    /\ UNCHANGED << procVars, docVars, fileVars, chainVars, runVars, outVars >>

\* context.ServiceManager.createInstanceWithContext("com.sun.star.frame.Desktop");
\* the loop is over: its counters are not read again
CreateDesktop ==
    /\ pc = "desktop"
    /\ \E ok \in BOOLEAN :
          IF ok /\ context # "None"
          THEN /\ pc' = "open"
               /\ exc' = exc
          ELSE /\ pc' = HandlerOf(pc)
               /\ exc' = "Exception"
    /\ attempt' = 0
    /\ refusals' = 0
    /\ sleeps' = 0
    /\ UNCHANGED << procVars, context, docVars, fileVars, chainVars, runVars, outVars >>

\* ---------------------------------------------------------------------
\* Document loading and PDF export
\* ---------------------------------------------------------------------

\* doc = desktop.loadComponentFromURL(...); "if not doc: return False"
LoadDocument ==
    /\ pc = "open"
    /\ \E r \in { "opened", "null", "raises" } :
          CASE r = "opened" ->
                 /\ doc' = "open"
                 /\ pc' = IF script = "export" THEN "pages" ELSE "store"
                 /\ UNCHANGED << exc, result >>
            [] r = "null" ->
                 /\ doc' = doc
                 /\ result' = "False"
                 /\ pc' = "done"
                 /\ exc' = exc
            [] r = "raises" ->
                 /\ doc' = doc
                 /\ pc' = HandlerOf(pc)
                 /\ exc' = "Exception"
                 /\ result' = result
    /\ UNCHANGED << procVars, connVars, doc_closes, pdf_doc, pdf_doc_closes,
                    fileVars, chainVars, runVars, exit_code >>

\* export_slides only: doc.getDrawPages(), pages.getCount(), os.makedirs and
\* the page-size detection, whose result is only printed
GetPages ==
    /\ pc = "pages"
    /\ \E ok \in BOOLEAN :
          IF ok
          THEN /\ pc' = "store"
               /\ exc' = exc
          ELSE /\ pc' = HandlerOf(pc)
               /\ exc' = "Exception"
    /\ UNCHANGED << procVars, connVars, docVars, fileVars, chainVars, runVars, outVars >>

\* doc.storeToURL(url, filter_data): to temp_export.pdf in export_slides, to
\* the output file in convert_pptx_to_pdf (where the caller verifies that
\* the file exists, as a call that returns may have produced none)
StoreToURL ==
    /\ pc = "store"
    /\ \E ok \in BOOLEAN, file \in BOOLEAN :
          /\ IF script = "export"
             THEN /\ temp_pdf' = (ok \/ temp_pdf)
                  /\ out_pdf' = out_pdf
             ELSE /\ out_pdf' = ((ok /\ file) \/ out_pdf)
                  /\ temp_pdf' = temp_pdf
          /\ IF ok
             THEN /\ pc' = "close_doc"
                  /\ exc' = exc
             ELSE /\ pc' = HandlerOf(pc)
                  /\ exc' = "Exception"
    /\ UNCHANGED << procVars, connVars, docVars, dir, written, rendered, ran,
                    images, chainVars, runVars, outVars >>

\* doc.close(True) after the export
CloseDoc ==
    /\ pc = "close_doc"
    /\ doc_closes' = doc_closes + 1
    /\ \E ok \in BOOLEAN :
          IF ok
          THEN /\ doc' = "closed"
               /\ pc' = IF script = "export" THEN "probe" ELSE "shutdown"
               /\ exc' = exc
          ELSE /\ doc' = doc
               /\ pc' = HandlerOf(pc)
               /\ exc' = "Exception"
    /\ UNCHANGED << procVars, connVars, pdf_doc, pdf_doc_closes, fileVars, chainVars,
                    runVars, outVars >>

\* ---------------------------------------------------------------------
\* Rasterization chain of export_slides
\* ---------------------------------------------------------------------

\* subprocess.run(['pdftoppm', '-v'], check=True, timeout=2): the "else"
\* branch runs the tool, the three caught failures select the library
ProbePdftoppm ==
    /\ pc = "probe"
    /\ \E available \in BOOLEAN :
          /\ probes' = probes \cup { << "pdftoppm", available >> }
          /\ pc' = IF available THEN "tool" ELSE "import_lib"
    /\ UNCHANGED << exc, procVars, connVars, docVars, fileVars, failed_in, runVars,
                    outVars >>

\* from pdf2image import convert_from_path
ImportPdf2image ==
    /\ pc = "import_lib"
    /\ \E ok \in BOOLEAN :
          /\ probes' = probes \cup { << "pdf2image", ok >> }
          /\ pc' = IF ok THEN "lib" ELSE "engine"
    /\ UNCHANGED << exc, procVars, connVars, docVars, fileVars, failed_in, runVars,
                    outVars >>

\* the handler of an exception raised inside the library strategy: the
\* "except ImportError" of the import covers the whole strategy
LibHandler(e) == IF e = "ImportError" THEN "engine" ELSE "inner_except"

\* images = convert_from_path(temp_pdf_path, dpi=150)
ConvertFromPath ==
    /\ pc = "lib"
    /\ ran' = ran \cup { "pdf2image" }
    /\ \/ \E k \in Counts(num_pages) :
             /\ images' = k
             /\ pc' = "lib_save"
             /\ exc' = exc
             /\ failed_in' = failed_in
       \/ \E e \in { "ImportError", "Exception" } :
             /\ images' = images
             /\ pc' = LibHandler(e)
             /\ exc' = IF LibHandler(e) = "engine" THEN exc ELSE e
             /\ failed_in' = failed_in \cup { "pdf2image" }
    /\ UNCHANGED << procVars, connVars, docVars, dir, temp_pdf, out_pdf, written,
                    rendered, probes, runVars, outVars >>

\* for i, image in enumerate(images): image.save(slide-<i+1>.png): every
\* image is saved, or the save of image s+1 raises after s were saved
SaveImages ==
    /\ pc = "lib_save"
    /\ \/ /\ dir' = SavePages(dir, images)
          /\ written' = written \cup SlideNames(images)
          /\ rendered' = images
          /\ pc' = "rm_pdf"
          /\ exc' = exc
          /\ failed_in' = failed_in
       \/ \E s \in { 0, images - 1 }, e \in { "ImportError", "Exception" } :
             /\ s >= 0
             /\ s < images
             /\ dir' = SavePages(dir, s)
             /\ written' = written \cup SlideNames(s)
             /\ rendered' = rendered
             /\ pc' = LibHandler(e)
             /\ exc' = IF LibHandler(e) = "engine" THEN exc ELSE e
             /\ failed_in' = failed_in \cup { "pdf2image" }
    /\ UNCHANGED << procVars, connVars, docVars, temp_pdf, out_pdf, ran, images,
                    probes, runVars, outVars >>

\* pdf_doc = desktop.loadComponentFromURL(temp_pdf_url, ...); a null result
\* raises "Could not open PDF for conversion"
LoadPdfDoc ==
    /\ pc = "engine"
    /\ ran' = ran \cup { "engine" }
    /\ \E r \in { "opened", "null", "raises" } :
          IF r = "opened"
          THEN /\ pdf_doc' = "open"
               /\ pc' = "engine_pages"
               /\ exc' = exc
               /\ failed_in' = failed_in
          ELSE /\ pdf_doc' = pdf_doc
               /\ pc' = HandlerOf(pc)
               /\ exc' = "Exception"
               /\ failed_in' = failed_in \cup { "engine" }
    /\ UNCHANGED << procVars, connVars, doc, doc_closes, pdf_doc_closes, dir,
                    temp_pdf, out_pdf, written, rendered, images, probes, runVars,
                    outVars >>

\* for i in range(pdf_pages.getCount()): filter page i to slide-<i+1>.png.
\* The filter object may lack "filter" (nothing is written, nothing raised);
\* a page export may raise after s pages were written
FilterPages ==
    /\ pc = "engine_pages"
    /\ \/ \E k \in Counts(num_pages), has_filter \in BOOLEAN :
             LET n == IF has_filter THEN k ELSE 0
             IN  /\ dir' = SavePages(dir, n)
                 /\ written' = written \cup SlideNames(n)
                 /\ rendered' = n
                 /\ pc' = "engine_close"
                 /\ exc' = exc
                 /\ failed_in' = failed_in
       \/ \E s \in { 0, num_pages - 1 } :
             /\ dir' = SavePages(dir, s)
             /\ written' = written \cup SlideNames(s)
             /\ rendered' = rendered
             /\ pc' = HandlerOf(pc)
             /\ exc' = "Exception"
             /\ failed_in' = failed_in \cup { "engine" }
    /\ UNCHANGED << procVars, connVars, docVars, temp_pdf, out_pdf, ran, images,
                    probes, runVars, outVars >>

\* pdf_doc.close(True)
ClosePdfDoc ==
    /\ pc = "engine_close"
    /\ pdf_doc_closes' = pdf_doc_closes + 1
    /\ \E ok \in BOOLEAN :
          IF ok
          THEN /\ pdf_doc' = "closed"
               /\ pc' = "rm_pdf"
               /\ exc' = exc
               /\ failed_in' = failed_in
          ELSE /\ pdf_doc' = pdf_doc
               /\ pc' = HandlerOf(pc)
               /\ exc' = "Exception"
               /\ failed_in' = failed_in \cup { "engine" }
    /\ UNCHANGED << procVars, connVars, doc, doc_closes, fileVars, probes, runVars,
                    outVars >>

\* width of the page numbers in the names pdftoppm writes for an n-page
\* file: the number of digits of the page count
PadWidth(n) == Len(Digits(n))

\* subprocess.run(pdftoppm_cmd, check=True, timeout=120): the tool writes
\* slide-<padded page>.png for the pages it renders; a non-zero exit or the
\* timeout raises after the files written so far
RunPdftoppm ==
    /\ pc = "tool"
    /\ ran' = ran \cup { "pdftoppm" }
    /\ \E k \in Counts(num_pages) :
          /\ dir' = WritePages(dir, k, PadWidth(num_pages))
          /\ written' = written \cup { Pad(Digits(i), PadWidth(num_pages)) : i \in 1..k }
          /\ \/ /\ rendered' = k
                /\ pc' = "rename"
                /\ exc' = exc
                /\ failed_in' = failed_in
             \/ \E e \in { "CalledProcessError", "TimeoutExpired" } :
                   /\ k < num_pages
                   /\ rendered' = rendered
                   /\ pc' = HandlerOf(pc)
                   /\ exc' = e
                   /\ failed_in' = failed_in \cup { "pdftoppm" }
    /\ UNCHANGED << procVars, connVars, docVars, temp_pdf, out_pdf, images,
                    probes, runVars, outVars >>

\* png_files = sorted(glob('slide-*.png')); rename the i-th to slide-<i>.png
RenameFiles ==
    /\ pc = "rename"
    /\ LET png_files == Sorted(DOMAIN dir)
       IN  dir' = RenameLoop(dir, png_files, 1)
    /\ pc' = "rm_pdf"
    /\ UNCHANGED << exc, procVars, connVars, docVars, temp_pdf, out_pdf, written,
                    rendered, ran, images, chainVars, runVars, outVars >>

\* if os.path.exists(temp_pdf_path): os.remove(temp_pdf_path)
RemoveTempPdf ==
    /\ pc = "rm_pdf"
    /\ temp_pdf' = FALSE
    /\ pc' = "shutdown"
    /\ UNCHANGED << exc, procVars, connVars, docVars, dir, out_pdf, written,
                    rendered, ran, images, chainVars, runVars, outVars >>

\* variant: the handler swallows the exception and goes on to the cleanup
AfterInnerExceptContinue == "shutdown"

\* the "raise" that ends the handler of the inner try: the control point
\* that follows
AfterInnerExcept == "outer_except"

\* "except Exception as e" of the inner try: doc.close(True) inside a bare
\* try/except, then re-raise
InnerExcept ==
    /\ pc = "inner_except"
    /\ doc_closes' = doc_closes + 1
    /\ \E ok \in BOOLEAN : doc' = IF ok /\ doc = "open" THEN "closed" ELSE doc
    /\ pc' = AfterInnerExcept
    /\ UNCHANGED << exc, procVars, connVars, pdf_doc, pdf_doc_closes, fileVars, chainVars,
                    runVars, outVars >>

\* ---------------------------------------------------------------------
\* Verification, top-level handlers, exit
\* ---------------------------------------------------------------------

\* export_slides: len(created_files) > 0 over the slide-*.png of the
\* directory; convert_pptx_to_pdf: os.path.exists(output_file)
Verified ==
    IF script = "export" THEN Cardinality(DOMAIN dir) > 0 ELSE out_pdf

Verify ==
    /\ pc = "verify"
    /\ result' = IF Verified THEN "True" ELSE "False"
    /\ pc' = "done"
    /\ UNCHANGED << exc, exit_code, procVars, connVars, docVars, fileVars, chainVars, runVars >>

\* variant: only the "except ImportError" clause is present
CaughtImportErrorOnly(e) == e = "ImportError"

\* the exception classes the two top-level clauses catch: "except
\* ImportError" and "except Exception" (every modelled kind derives from
\* Exception)
Caught(e) ==
    \/ e = "ImportError"
    \/ e \in { "Exception", "FileNotFoundError", "CalledProcessError", "TimeoutExpired" }

\* the top-level except clauses: both print and return False
OuterExcept ==
    /\ pc = "outer_except"
    /\ result' = IF Caught(exc) THEN "False" ELSE "escaped"
    /\ pc' = "done"
    /\ UNCHANGED << exc, exit_code, procVars, connVars, docVars, fileVars, chainVars, runVars >>

\* sys.exit(0 if success else 1); an uncaught exception ends the process
\* with status 1
ExitCode(r) == IF r = "True" THEN 0 ELSE 1

Exit ==
    /\ pc = "done"
    /\ exit_code' = ExitCode(result)
    /\ log' = Append(log, [ script |-> script, result |-> result,
                            slides |-> DOMAIN dir, before |-> dir0,
                            complete |-> (rendered = num_pages) ])
    /\ pc' = "exited"
    /\ UNCHANGED << exc, result, procVars, connVars, docVars, fileVars, chainVars, script,
                    run, num_pages, dir0, input_found >>

Next ==
    \/ Main
    \/ ImportUno
    \/ KillExisting
    \/ StartEngine
    \/ Resolve
    \/ CreateDesktop
    \/ LoadDocument
    \/ GetPages
    \/ StoreToURL
    \/ CloseDoc
    \/ ProbePdftoppm
    \/ ImportPdf2image
    \/ ConvertFromPath
    \/ SaveImages
    \/ LoadPdfDoc
    \/ FilterPages
    \/ ClosePdfDoc
    \/ RunPdftoppm
    \/ RenameFiles
    \/ RemoveTempPdf
    \/ InnerExcept
    \/ StopEngine
    \/ Verify
    \/ OuterExcept
    \/ Exit

Spec == Init /\ [][Next]_vars

\* ---------------------------------------------------------------------
\* Properties
\* ---------------------------------------------------------------------

\* the function has returned (or let an exception escape)
Returned == pc = "done"

\* C1: an invocation that launched the engine performs the shutdown exactly
\* once before it returns, and never returns with its engine still running
C1_ShutdownOnEveryExit ==
    (Returned /\ lo_process # 0) => (term_calls = 1 /\ lo_process \notin alive)

LoopLeft == pc = "desktop" \/ (pc = "outer_except" /\ attempt > 0)

\* C3: the loop makes exactly k attempts when the k-th is the first one not
\* refused, exactly 10 before it raises when all are refused, never an 11th,
\* and goes on while attempts are refused before the 10th
C3_AttemptCount ==
    /\ attempt <= max_attempts
    /\ pc = "connect" => (refusals = attempt /\ attempt < max_attempts)
    /\ LoopLeft => \/ attempt = refusals + 1
                   \/ (attempt = refusals /\ attempt = max_attempts)
    /\ pc = "desktop" => (attempt = refusals + 1 /\ context = "ctx")

C3_Witness ==
    /\ pc = "outer_except"
    /\ attempt = max_attempts
    /\ refusals = max_attempts
    /\ exc = "Exception"

\* C4: temp_export.pdf does not exist when export_slides returns
C4_NoTempPdfOnReturn ==
    (Returned /\ script = "export") => ~temp_pdf

\* C5: at most one rasterization strategy executes its conversion step in
\* an invocation
C5_AtMostOneStrategy == Cardinality(ran) <= 1

\* C6: when the invocation returns, every handle that was opened is closed
\* and close was called on it exactly once
C6_ClosedExactlyOnce ==
    Returned =>
        /\ doc # "none" => (doc = "closed" /\ doc_closes = 1)
        /\ pdf_doc # "none" => (pdf_doc = "closed" /\ pdf_doc_closes = 1)

\* C7: a run whose strategy wrote fewer than N images reports failure
C7_NoPartialSuccess ==
    (Returned /\ script = "export" /\ rendered >= 0 /\ rendered < num_pages)
    => result = "False"

\* C8: at most one engine process is alive at any time
C8_AtMostOneEngine == Cardinality(alive) <= 1

\* C9: two successive successful exports of the same valid input into a
\* directory that was empty before the first leave the same slide files
C9_Idempotent ==
    (/\ Len(log) >= 2
     /\ log[1].script = "export" /\ log[2].script = "export"
     /\ log[1].result = "True" /\ log[2].result = "True"
     /\ log[1].complete /\ log[2].complete
     /\ log[1].before = {})
    => log[2].slides = log[1].slides

C11_MissingInputFailsFast ==
    ~input_found =>
        /\ pc = "exited"
        /\ exit_code = 1
        /\ result = "none"
        /\ kill_steps = 0
        /\ lo_process = 0
        /\ attempt = 0

C11_Witness ==
    /\ ~input_found
    /\ pc = "exited"
    /\ exit_code = 1
    /\ run = 2

\* C12: only a refusal is retried: the loop is still running only if every
\* attempt so far was refused and followed by one backoff sleep; an attempt
\* that fails otherwise is the last one, is not followed by a sleep, and the
\* invocation returns False
C12_OnlyRefusalRetried ==
    /\ pc = "connect" => (refusals = attempt /\ sleeps = attempt)
    /\ (pc = "outer_except" /\ attempt > refusals) =>
           (attempt = refusals + 1 /\ sleeps = refusals /\ context = "None")
    /\ (Returned /\ attempt > refusals) => result = "False"

C12_Witness ==
    /\ Returned
    /\ attempt = 3
    /\ refusals = 2
    /\ sleeps = 2
    /\ result = "False"

\* control points after the connection loop, up to the return
AfterLoop == { "desktop", "open", "pages", "store", "close_doc", "probe",
               "import_lib", "lib", "lib_save", "engine", "engine_pages",
               "engine_close", "tool", "rename", "rm_pdf", "inner_except",
               "shutdown", "verify" }

\* C20: control passes the connection loop only with a handle obtained from
\* an accepted attempt
C20_ContextAfterLoop ==
    pc \in AfterLoop => context = "ctx"

C20_Witness ==
    /\ pc = "desktop"
    /\ context = "ctx"
    /\ attempt = max_attempts
    /\ refusals = max_attempts - 1

\* priority of a strategy in the chain (1 is tried first)
Rank(s) == CASE s = "pdftoppm" -> 1 [] s = "pdf2image" -> 2 [] s = "engine" -> 3

\* C13: a failure raised while a selected strategy runs never starts a
\* lower-priority strategy, and the invocation fails
C13_NoFallbackAfterFailure ==
    /\ \A f \in failed_in : \A s \in ran : Rank(s) <= Rank(f)
    /\ (Returned /\ failed_in # {}) => result = "False"

\* C14: pdftoppm runs only after its probe succeeded, pdf2image only after
\* the pdftoppm probe failed and the import succeeded, the engine re-import
\* only after both the pdftoppm probe and the import failed; a successful
\* pdftoppm probe always selects pdftoppm
C14_PriorityOrder ==
    /\ "pdftoppm" \in ran => << "pdftoppm", TRUE >> \in probes
    /\ "pdf2image" \in ran =>
           (<< "pdftoppm", FALSE >> \in probes /\ << "pdf2image", TRUE >> \in probes)
    /\ "engine" \in ran =>
           (<< "pdftoppm", FALSE >> \in probes /\ << "pdf2image", FALSE >> \in probes)
    /\ << "pdftoppm", TRUE >> \in probes => (pc = "tool" \/ ran = { "pdftoppm" })

\* C15: after the rename step of the pdftoppm strategy (every page
\* rendered), slide-<n>.png holds the image of page n for every n in 1..N
C15_RenameKeepsPages ==
    (pc = "rm_pdf" /\ ran = { "pdftoppm" } /\ rendered = num_pages)
    => \A n \in 1..num_pages :
          Digits(n) \in DOMAIN dir /\ dir[Digits(n)] = n

\* C16: the shutdown requests termination once; the forced kill is issued
\* at most once, only when terminate() or the bounded wait failed, and
\* never when the process exited within the wait
C16_KillOnlyAfterGracefulFailed ==
    /\ kill_calls <= 1
    /\ kill_calls <= term_calls
    /\ kill_calls = 1 => stop_outcome \in { "timeout", "term_raised" }
    /\ stop_outcome = "exited" => (kill_calls = 0 /\ term_calls = 1)
    /\ stop_outcome \in { "timeout", "term_raised" } => kill_calls = 1

C16_Witness ==
    /\ pc = "verify"
    /\ stop_outcome = "exited"
    /\ term_calls = 1
    /\ kill_calls = 0
    /\ lo_process \notin alive

\* C17: when the engine shutdown begins or has been performed, the source
\* document is closed and the re-imported PDF document is not open
C17_ClosedBeforeShutdown ==
    (pc = "shutdown" \/ term_calls > 0) =>
        /\ doc = "closed"
        /\ doc_closes >= 1
        /\ pdf_doc \in { "none", "closed" }

C17_Witness ==
    /\ pc = "shutdown"
    /\ script = "export"
    /\ doc = "closed"
    /\ pdf_doc = "closed"
    /\ pdf_doc_closes = 1

\* C19: export_slides returns True only if one of its strategies wrote at
\* least one slide image in this invocation
C19_SuccessNeedsOwnOutput ==
    (Returned /\ script = "export" /\ result = "True") => written # {}
====
